---- MODULE Spec2Model ----
(***************************************************************************)
(* A state-machine model of the TrickHLA SpaceFOM entity packing and       *)
(* latency-compensation code:                                              *)
(*   source/SpaceFOM/PhysicalEntity.cpp            initialize, pack/unpack *)
(*   source/SpaceFOM/DynamicalEntityLagCompBase.cpp send / receive         *)
(*   source/SpaceFOM/PhysicalEntityLagCompInteg.cpp initialize             *)
(*   include/TrickHLA/TimedSyncPntList.hh          synchronization points  *)
(*                                                                         *)
(* Doubles are modelled as integers (the code only copies and compares     *)
(* them; the one division, the matrix inverse, is kept exact as a          *)
(* numerator matrix over a common denominator).  A C string is a pointer:  *)
(* NULL or the tag of a heap block; the heap maps block tags to contents.  *)
(* A call that dereferences a null pointer ends with status "crashed"; a   *)
(* call that reaches terminate_with_message ends with status "terminated". *)
(* Either way the remaining statements of the call are not executed.       *)
(***************************************************************************)
EXTENDS Integers, Sequences, FiniteSets, TLC

VARIABLES
    physical_data,      \* PhysicalEntity::physical_data (the working data)
    pe_packing_data,    \* PhysicalEntityBase::pe_packing_data (the packing record)
    heap,               \* Trick memory manager: block tag -> contents, or Freed
    received,           \* Attribute::is_received() of each attribute, this cycle
    scenario_time,      \* get_scenario_time()
    lookahead,          \* get_lookahead().get_time_in_seconds()
    de_packing_data,    \* DynamicalEntityBase::de_packing_data
    lag,                \* the DynamicalEntityLagCompBase object's own fields
    integ_dt,           \* LagCompensationInteg::integ_dt
    integ_tol,          \* LagCompensationInteg::integ_tol
    status,             \* "ok", "crashed" (null dereference) or "terminated"
    op,                 \* the entry point called last ("none" before any call)
    call_log,           \* the calls made and reports emitted by that entry point
    before_pack,        \* history: <<the working numeric data a pack started from>>
                        \* while that pack is the call before last at most
    bound,              \* PhysicalEntity::physical_data != NULL: the entity's pointer
                        \* refers to the working data
    initialized,        \* PhysicalEntityBase::initialize() has marked the entity
    sync_pnts,          \* TimedSyncPntList: the points, in insertion order
    check_time,         \* the time handed to the last synchronization-point call
    ret                 \* what that call returned (<<>> before any call)

vars == <<physical_data, pe_packing_data, heap, received, scenario_time, lookahead,
          de_packing_data, lag, integ_dt, integ_tol, status, op, call_log,
          before_pack, bound, initialized, sync_pnts, check_time, ret>>

-----------------------------------------------------------------------------
(* Bounds of the model. *)

\* Scenario times and data time tags range over 0 .. MaxTime.
MaxTime == 1

\* integ_dt ranges over 1 .. MaxInteg and integ_tol over 0 .. MaxInteg.
MaxInteg == 7

\* Action times and check times of synchronization points range over
\* 0 .. MaxSyncTime, in the base unit of Int64Time.
MaxSyncTime == 2

\* A synchronization-point list holds at most MaxSyncPnts points.
MaxSyncPnts == 3

-----------------------------------------------------------------------------
(* Strings, pointers and the memory manager. *)

\* The null pointer.
NULL == <<>>

\* Contents of a block that is not allocated.
Freed == "<freed>"

\* String contents used as inputs.
StringVals == {"", "a", "b"}

\* The four identity strings of PhysicalEntityData.
StringFields == {"name", "type", "status", "parent_frame"}

\* Every pointer variable allocates from an arena of two blocks of its own,
\* so a block returned by mm_strdup is never the block that was just freed.
Arenas == {"work", "pack"} \X StringFields

Blocks == {<<a[1], a[2], g>> : a \in Arenas, g \in 0 .. 1}

ArenaBlock(arena, g) == <<arena[1], arena[2], g>>

\* strcmp( p, q ) == 0 for two non-null pointers.
StrEqual(h, p, q) == h[p] = h[q]

\* trick_MM->delete_var( p ): frees the block; a null or unallocated address
\* is reported by the memory manager and nothing is freed.
delete_var(h, p) ==
    IF p # NULL /\ h[p] # Freed THEN [h EXCEPT ![p] = Freed] ELSE h

\* The block trick_MM->mm_strdup returns for pointer variable `arena` whose
\* present value is `cur`: a free block of the arena other than `cur`.
NewBlock(h, arena, cur) ==
    LET free == {g \in 0 .. 1 : /\ h[ArenaBlock(arena, g)] = Freed
                               /\ ArenaBlock(arena, g) # cur}
    IN  ArenaBlock(arena, CHOOSE g \in free : \A g2 \in free : g <= g2)

\* trick_MM->mm_strdup( src ) stored into the block `blk`.
mm_strdup(h, blk, src) == [h EXCEPT ![blk] = h[src]]

-----------------------------------------------------------------------------
(* Numeric data. *)

\* for ( iinc = 0; iinc < 3; ++iinc ) dst[iinc] = src[iinc];
CopyVec(src) == [i \in 1 .. 3 |-> src[i]]

\* A 3-vector input.
Vec(k) == <<k + 1, k + 2, k + 3>>

\* A quaternion input.
Quat(k) == [scalar |-> k, vector |-> Vec(k)]

\* A space-time coordinate state whose fields all differ from each other
\* and from those of every other profile k.
StateOf(k, t) ==
    [pos |-> Vec(k + 10), vel |-> Vec(k + 20), quat |-> Quat(k + 30),
     ang_vel |-> Vec(k + 40), time |-> t]

-----------------------------------------------------------------------------
(* The state one call works on: the working data, the packing record, the  *)
(* heap, whether the call is still running, and what it has called.        *)

Machine(w, p, h, de, lg) ==
    [work |-> w, pack |-> p, heap |-> h, de |-> de, lag |-> lg,
     bound |-> bound, initialized |-> initialized,
     status |-> "ok", log |-> <<>>]

\* A null pointer is dereferenced: the process dies on the spot.
Crash(m) == [m EXCEPT !.status = "crashed"]

\* TrickHLA::DebugHandler::terminate_with_message( errmsg.str() ): the message
\* is printed and the simulation is terminated; the call does not return.
terminate_with_message(m) ==
    [m EXCEPT !.status = "terminated", !.log = Append(@, <<"terminate_with_message">>)]

\* A callee is entered: noted in the log of the running call.
Called(m, what) ==
    IF m.status = "ok" THEN [m EXCEPT !.log = Append(@, what)] ELSE m

\* DupInto with the source pointer stored instead of a duplicate.
DupInto_SharesStorage(m, side, f, src) == [m EXCEPT ![side][f] = src]

\* dst = trick_MM->mm_strdup( src ), dst being the pointer `side`.f.
DupInto(m, side, f, src) ==
    IF src = NULL
    THEN Crash(m)
    ELSE LET blk == NewBlock(m.heap, <<side, f>>, m[side][f])
         IN  [m EXCEPT ![side][f] = blk, !.heap = mm_strdup(m.heap, blk, src)]

\* trick_MM->delete_var( (void *)dst ), dst being the pointer `side`.f; the
\* log notes a call on storage that has been freed already.
DeleteOf(m, side, f) ==
    LET p  == m[side][f]
        m0 == IF p # NULL /\ m.heap[p] = Freed
              THEN Called(m, <<"delete_var of freed storage", side, f>>)
              ELSE m
    IN  [m0 EXCEPT !.heap = delete_var(m.heap, p)]

-----------------------------------------------------------------------------
(* PhysicalEntity::pack_from_working_data *)

\* A required string (name, parent_frame): the packing string is compared
\* without a null check, and a null working string is fatal.
PackRequiredString(m, f) ==
    IF m.status # "ok" THEN m
    ELSE IF m.work[f] # NULL
    THEN IF m.pack[f] = NULL
         THEN Crash(m)
         ELSE IF ~StrEqual(m.heap, m.work[f], m.pack[f])
              THEN DupInto(DeleteOf(m, "pack", f), "pack", f, m.work[f])
              ELSE m
    ELSE terminate_with_message(m)

\* An optional string (type, status): every pointer is null-checked.
PackOptionalString(m, f) ==
    IF m.status # "ok" THEN m
    ELSE IF m.work[f] # NULL
    THEN IF m.pack[f] # NULL
         THEN IF ~StrEqual(m.heap, m.work[f], m.pack[f])
              THEN DupInto(DeleteOf(m, "pack", f), "pack", f, m.work[f])
              ELSE m
         ELSE DupInto(m, "pack", f, m.work[f])
    ELSE IF m.pack[f] # NULL
         THEN [DeleteOf(m, "pack", f) EXCEPT !.pack[f] = NULL]
         ELSE m

PackName(m) == PackRequiredString(m, "name")

PackType(m) == PackOptionalString(m, "type")

PackStatus(m) == PackOptionalString(m, "status")

PackParentFrame(m) == PackRequiredString(m, "parent_frame")

\* PackState with the velocity left out of the copy.
PackState_VelocityNotCopied(m, now) ==
    IF m.status # "ok" THEN m
    ELSE [m EXCEPT !.pack.state =
            [pos     |-> CopyVec(m.work.state.pos),
             vel     |-> m.pack.state.vel,
             quat    |-> [scalar |-> m.work.state.quat.scalar,
                          vector |-> CopyVec(m.work.state.quat.vector)],
             ang_vel |-> CopyVec(m.work.state.ang_vel),
             time    |-> now]]

\* The space-time coordinate state; the time tag is the scenario time.
PackState(m, now) ==
    IF m.status # "ok" THEN m
    ELSE [m EXCEPT !.pack.state =
            [pos     |-> CopyVec(m.work.state.pos),
             vel     |-> CopyVec(m.work.state.vel),
             quat    |-> [scalar |-> m.work.state.quat.scalar,
                          vector |-> CopyVec(m.work.state.quat.vector)],
             ang_vel |-> CopyVec(m.work.state.ang_vel),
             time    |-> now]]

\* Acceleration, rotational acceleration, center of mass, body frame.
PackRest(m) ==
    IF m.status # "ok" THEN m
    ELSE [m EXCEPT !.pack.accel     = CopyVec(m.work.accel),
                   !.pack.rot_accel = CopyVec(m.work.rot_accel),
                   !.pack.cm        = CopyVec(m.work.cm),
                   !.pack.body_wrt_struct =
                       [scalar |-> m.work.body_wrt_struct.scalar,
                        vector |-> CopyVec(m.work.body_wrt_struct.vector)]]

\* The first statement reads physical_data->name: a null physical_data is
\* dereferenced there.
pack_from_working_data(m, now) ==
    LET m0 == Called(m, <<"pack_from_working_data">>)
    IN  IF ~m0.bound
        THEN Crash(m0)
        ELSE PackRest(PackState(PackParentFrame(PackStatus(PackType(PackName(m0)))), now))

-----------------------------------------------------------------------------
(* PhysicalEntity::unpack_into_working_data *)

\* UnpackState gated on the name attribute instead of the state attribute.
UnpackState_GatedOnName(m, rcv) ==
    IF m.status # "ok" \/ ~rcv["name"] THEN m
    ELSE [m EXCEPT !.work.state =
            [pos     |-> CopyVec(m.pack.state.pos),
             vel     |-> CopyVec(m.pack.state.vel),
             quat    |-> [scalar |-> m.pack.state.quat.scalar,
                          vector |-> CopyVec(m.pack.state.quat.vector)],
             ang_vel |-> CopyVec(m.pack.state.ang_vel),
             time    |-> m.pack.state.time]]

UnpackState(m, rcv) ==
    IF m.status # "ok" \/ ~rcv["state"] THEN m
    ELSE [m EXCEPT !.work.state =
            [pos     |-> CopyVec(m.pack.state.pos),
             vel     |-> CopyVec(m.pack.state.vel),
             quat    |-> [scalar |-> m.pack.state.quat.scalar,
                          vector |-> CopyVec(m.pack.state.quat.vector)],
             ang_vel |-> CopyVec(m.pack.state.ang_vel),
             time    |-> m.pack.state.time]]

\* name, type, status: the working string is freed and duplicated again when
\* strcmp() returns 0, that is when the two strings are equal.
UnpackString(m, rcv, f) ==
    IF m.status # "ok" \/ ~rcv[f] THEN m
    ELSE IF m.work[f] # NULL
    THEN IF m.pack[f] = NULL
         THEN Crash(m)
         ELSE IF StrEqual(m.heap, m.work[f], m.pack[f])
              THEN DupInto(DeleteOf(m, "work", f), "work", f, m.pack[f])
              ELSE m
    ELSE DupInto(m, "work", f, m.pack[f])

UnpackName(m, rcv) == UnpackString(m, rcv, "name")

UnpackType(m, rcv) == UnpackString(m, rcv, "type")

UnpackStatus(m, rcv) == UnpackString(m, rcv, "status")

\* parent_frame: as above, but an empty packing string gives a null pointer.
UnpackParentFrame(m, rcv) ==
    IF m.status # "ok" \/ ~rcv["parent_frame"] THEN m
    ELSE IF m.work.parent_frame # NULL
    THEN IF m.pack.parent_frame = NULL
         THEN Crash(m)
         ELSE IF StrEqual(m.heap, m.work.parent_frame, m.pack.parent_frame)
              THEN IF m.heap[m.pack.parent_frame] # ""
                   THEN DupInto(DeleteOf(m, "work", "parent_frame"),
                                "work", "parent_frame", m.pack.parent_frame)
                   ELSE [DeleteOf(m, "work", "parent_frame")
                            EXCEPT !.work.parent_frame = NULL]
              ELSE m
    ELSE IF m.pack.parent_frame = NULL
         THEN Crash(m)
         ELSE IF m.heap[m.pack.parent_frame] # ""
              THEN DupInto(m, "work", "parent_frame", m.pack.parent_frame)
              ELSE m

UnpackBodyFrame(m, rcv) ==
    IF m.status # "ok" \/ ~rcv["body_frame"] THEN m
    ELSE [m EXCEPT !.work.body_wrt_struct =
            [scalar |-> m.pack.body_wrt_struct.scalar,
             vector |-> CopyVec(m.pack.body_wrt_struct.vector)]]

\* Every received group reads or writes through physical_data: a null
\* physical_data is dereferenced by the first group that is received.
unpack_into_working_data(m, rcv) ==
    LET m0 == Called(m, <<"unpack_into_working_data">>)
    IN  IF ~m0.bound /\ \E g \in {"state", "body_frame"} \cup StringFields : rcv[g]
        THEN Crash(m0)
        ELSE UnpackBodyFrame(
                 UnpackParentFrame(
                     UnpackStatus(UnpackType(UnpackName(UnpackState(m0, rcv), rcv), rcv), rcv),
                     rcv),
                 rcv)

-----------------------------------------------------------------------------
(* PhysicalEntity::initialize *)

\* The PhysicalEntityData object of the simulation, as a pointer value.
TheData == <<"PhysicalEntityData">>

\* What inserting a null char pointer into the message stream can do: the
\* behaviour is undefined; a library either sets the stream's badbit and
\* goes on, or reads through the pointer.
NullInsertOutcomes == {"badbit", "crash"}

\* errmsg << ... << pe_packing_data.name << THLA_ENDL
InsertPackingName(m, ub) ==
    IF m.pack.name = NULL /\ ub = "crash" THEN Crash(m) ELSE m

\* The error branch: the message is built, then terminate_with_message.
UnexpectedNull(m, ub) ==
    LET m0 == InsertPackingName(m, ub)
    IN  IF m0.status = "ok" THEN terminate_with_message(m0) ELSE m0

\* PhysicalEntityBase::initialize(): marks the entity as initialized.
PhysicalEntityBase_initialize(m) ==
    IF m.status # "ok" THEN m
    ELSE [Called(m, <<"PhysicalEntityBase::initialize">>) EXCEPT !.initialized = TRUE]

\* PhysicalEntity::initialize()
PhysicalEntity_initialize(m, ub) ==
    IF m.status # "ok" THEN m
    ELSE LET m0 == Called(m, <<"PhysicalEntity::initialize">>)
             m1 == IF ~m0.bound THEN UnexpectedNull(m0, ub) ELSE m0
         IN  PhysicalEntityBase_initialize(m1)

\* PhysicalEntity::initialize( PhysicalEntityData *physical_data_ptr )
PhysicalEntity_initialize_ptr(m, physical_data_ptr, ub) ==
    LET m0 == Called(m, <<"PhysicalEntity::initialize(ptr)", physical_data_ptr>>)
        m1 == IF physical_data_ptr = NULL THEN UnexpectedNull(m0, ub) ELSE m0
        m2 == IF m1.status = "ok"
              THEN [m1 EXCEPT !.bound = (physical_data_ptr # NULL)]
              ELSE m1
    IN  PhysicalEntity_initialize(m2, ub)

-----------------------------------------------------------------------------
(* Matrices and the dynamical data. *)

Mat(a, b, c) == <<a, b, c>>

ZeroMat == Mat(<<0, 0, 0>>, <<0, 0, 0>>, <<0, 0, 0>>)

IdentityMat == Mat(<<1, 0, 0>>, <<0, 1, 0>>, <<0, 0, 1>>)

\* for iinc, jinc: dst[iinc][jinc] = src[iinc][jinc];
CopyMat(src) == [i \in 1 .. 3 |-> [j \in 1 .. 3 |-> src[i][j]]]

\* The fields the DynamicalEntityLagCompBase constructor sets.
LagConstructed ==
    [lag_comp_data |-> [pos |-> <<0, 0, 0>>, vel |-> <<0, 0, 0>>,
                        att |-> [scalar |-> 1, vector |-> <<0, 0, 0>>],
                        ang_vel |-> <<0, 0, 0>>, time |-> 0],
     Q_dot         |-> [scalar |-> 0, vector |-> <<0, 0, 0>>],
     compensate_dt |-> 0,
     mass          |-> 1,
     mass_rate     |-> 0,
     force         |-> <<0, 0, 0>>,
     torque        |-> <<0, 0, 0>>,
     inertia       |-> IdentityMat,
     inertia_rate  |-> ZeroMat,
     inertia_inv   |-> [num |-> ZeroMat, den |-> 1]]

\* A dynamical packing record with profile k and inertia tensor J.
DynamicalData(k, J) ==
    [mass |-> k + 2, mass_rate |-> k + 3, force |-> Vec(k + 100),
     torque |-> Vec(k + 110), inertia |-> J, inertia_rate |-> Mat(Vec(k), Vec(k), Vec(k))]

-----------------------------------------------------------------------------
(* DynamicalEntityLagCompBase: load, unload, compensation, inversion. *)

\* PhysicalEntityBase::get_time(): the time tag of the packed state.
get_time(m) == m.pack.state.time

\* PhysicalEntityLagCompBase::load_lag_comp_data(): the packed state is
\* copied into the lag-compensation copy.
PhysicalEntityLagCompBase_load_lag_comp_data(m) ==
    [m EXCEPT !.lag.lag_comp_data =
        [pos     |-> CopyVec(m.pack.state.pos),
         vel     |-> CopyVec(m.pack.state.vel),
         att     |-> [scalar |-> m.pack.state.quat.scalar,
                      vector |-> CopyVec(m.pack.state.quat.vector)],
         ang_vel |-> CopyVec(m.pack.state.ang_vel),
         time    |-> m.pack.state.time]]

\* PhysicalEntityLagCompBase::unload_lag_comp_data(): the lag-compensation
\* copy is copied into the packed state.
PhysicalEntityLagCompBase_unload_lag_comp_data(m) ==
    [m EXCEPT !.pack.state =
        [pos     |-> CopyVec(m.lag.lag_comp_data.pos),
         vel     |-> CopyVec(m.lag.lag_comp_data.vel),
         quat    |-> [scalar |-> m.lag.lag_comp_data.att.scalar,
                      vector |-> CopyVec(m.lag.lag_comp_data.att.vector)],
         ang_vel |-> CopyVec(m.lag.lag_comp_data.ang_vel),
         time    |-> m.lag.lag_comp_data.time]]

\* DynamicalEntityLagCompBase::load_lag_comp_data()
load_lag_comp_data(m) ==
    IF m.status # "ok" THEN m
    ELSE LET m0 == PhysicalEntityLagCompBase_load_lag_comp_data(
                       Called(m, <<"load_lag_comp_data">>))
         IN  [m0 EXCEPT !.lag.mass         = m0.de.mass,
                        !.lag.mass_rate    = m0.de.mass_rate,
                        !.lag.force        = CopyVec(m0.de.force),
                        !.lag.torque       = CopyVec(m0.de.torque),
                        !.lag.inertia      = CopyMat(m0.de.inertia),
                        !.lag.inertia_rate = CopyMat(m0.de.inertia_rate)]

\* DynamicalEntityLagCompBase::unload_lag_comp_data()
unload_lag_comp_data(m) ==
    IF m.status # "ok" THEN m
    ELSE LET m0 == PhysicalEntityLagCompBase_unload_lag_comp_data(
                       Called(m, <<"unload_lag_comp_data">>))
         IN  [m0 EXCEPT !.de.mass         = m0.lag.mass,
                        !.de.mass_rate    = m0.lag.mass_rate,
                        !.de.force        = CopyVec(m0.lag.force),
                        !.de.torque       = CopyVec(m0.lag.torque),
                        !.de.inertia      = CopyMat(m0.lag.inertia),
                        !.de.inertia_rate = CopyMat(m0.lag.inertia_rate)]

Dot(u, v) == u[1] * v[1] + u[2] * v[2] + u[3] * v[3]

Cross(u, v) ==
    <<u[2] * v[3] - u[3] * v[2], u[3] * v[1] - u[1] * v[3], u[1] * v[2] - u[2] * v[1]>>

\* Q_dot.derivative_first( att, ang_vel ): the quaternion rate of the
\* kinematic relation; Q_dot holds twice the rate, which is whole.
derivative_first(m) ==
    IF m.status # "ok" THEN m
    ELSE LET q == m.lag.lag_comp_data.att
             w == m.lag.lag_comp_data.ang_vel
             x == Cross(q.vector, w)
         IN  [Called(m, <<"derivative_first">>) EXCEPT !.lag.Q_dot =
                [scalar |-> 0 - Dot(q.vector, w),
                 vector |-> [i \in 1 .. 3 |-> q.scalar * w[i] + x[i]]]]

\* The configured maximum step of one compensation.
max_step == 1

Abs(x) == IF x < 0 THEN 0 - x ELSE x

\* compensate( t_begin, t_end ) of the concrete engine.  On entry the log
\* notes the inertia and the inverse the engine is about to work with; a
\* window longer than max_step is reported and compensated all the same;
\* the position is propagated by the velocity over the window and the state
\* is tagged t_end.
compensate(m, t_begin, t_end) ==
    IF m.status # "ok" THEN m
    ELSE LET dt == t_end - t_begin
             d  == m.lag.lag_comp_data
             m0 == Called(Called(m, <<"compensate", t_begin, t_end>>),
                          <<"compensate_reads", m.lag.inertia, m.lag.inertia_inv>>)
             m1 == IF Abs(dt) > max_step
                   THEN Called(m0, <<"window_exceeded", dt>>)
                   ELSE m0
         IN  [m1 EXCEPT
                 !.lag.lag_comp_data.pos  = [i \in 1 .. 3 |-> d.pos[i] + d.vel[i] * dt],
                 !.lag.lag_comp_data.time = t_end]

\* The determinant dm_invert_symm() tests.
Determinant(M) ==
      M[1][1] * (M[2][2] * M[3][3] - M[3][2] * M[2][3])
    - M[2][1] * (M[1][2] * M[3][3] - M[3][2] * M[1][3])
    + M[3][1] * (M[1][2] * M[2][3] - M[2][2] * M[1][3])

\* The inverse dm_invert_symm() stores: the upper triangle from the
\* cofactors, mirrored into the lower one; kept exact as num / den.
SymmetricInverse(M) ==
    LET i11 == M[2][2] * M[3][3] - M[3][2] * M[2][3]
        i12 == M[3][1] * M[2][3] - M[2][1] * M[3][3]
        i13 == M[2][1] * M[3][2] - M[3][1] * M[2][2]
        i22 == M[1][1] * M[3][3] - M[3][1] * M[1][3]
        i23 == M[3][1] * M[1][2] - M[1][1] * M[3][2]
        i33 == M[1][1] * M[2][2] - M[2][1] * M[1][2]
    IN  [num |-> Mat(<<i11, i12, i13>>, <<i12, i22, i23>>, <<i13, i23, i33>>),
         den |-> Determinant(M)]

\* M_INIT( inertia_inv )
ZeroInverse == [num |-> ZeroMat, den |-> 1]

\* InvertInertia with a failed inversion made fatal.
InvertInertia_FatalWhenSingular(m) ==
    IF m.status # "ok" THEN m
    ELSE IF Determinant(m.lag.inertia) # 0
         THEN [m EXCEPT !.lag.inertia_inv = SymmetricInverse(m.lag.inertia)]
         ELSE terminate_with_message(m)

\* if ( dm_invert_symm( inertia_inv, inertia ) != TM_SUCCESS ) { send_hs; M_INIT }
InvertInertia(m) ==
    IF m.status # "ok" THEN m
    ELSE IF Determinant(m.lag.inertia) # 0
         THEN [m EXCEPT !.lag.inertia_inv = SymmetricInverse(m.lag.inertia)]
         ELSE [Called(m, <<"send_hs">>) EXCEPT !.lag.inertia_inv = ZeroInverse]

\* receive_lag_compensation with the compensation run when any attribute is
\* received instead of the state attribute.
receive_lag_compensation_AnyReceived(m, rcv, now) ==
    LET end_t  == now
        data_t == get_time(m)
        m0 == [m EXCEPT !.lag.compensate_dt = end_t - data_t]
        m1 == IF \E a \in DOMAIN rcv : rcv[a]
              THEN compensate(derivative_first(load_lag_comp_data(m0)), data_t, end_t)
              ELSE m0
        m2 == IF rcv["inertia"] THEN InvertInertia(m1) ELSE m1
    IN  unpack_into_working_data(unload_lag_comp_data(m2), rcv)

\* receive_lag_compensation with a state tagged later than the scenario time
\* made fatal.
receive_lag_compensation_FatalOnFutureData(m, rcv, now) ==
    LET end_t  == now
        data_t == get_time(m)
        m0 == [m EXCEPT !.lag.compensate_dt = end_t - data_t]
        m1 == IF rcv["state"]
              THEN IF end_t < data_t
                   THEN terminate_with_message(m0)
                   ELSE compensate(derivative_first(load_lag_comp_data(m0)), data_t, end_t)
              ELSE m0
        m2 == IF rcv["inertia"] THEN InvertInertia(m1) ELSE m1
    IN  unpack_into_working_data(unload_lag_comp_data(m2), rcv)

\* DynamicalEntityLagCompBase::receive_lag_compensation()
receive_lag_compensation(m, rcv, now) ==
    LET end_t  == now
        data_t == get_time(m)
        m0 == [m EXCEPT !.lag.compensate_dt = end_t - data_t]
        m1 == IF rcv["state"]
              THEN compensate(derivative_first(load_lag_comp_data(m0)), data_t, end_t)
              ELSE m0
        m2 == IF rcv["inertia"] THEN InvertInertia(m1) ELSE m1
    IN  unpack_into_working_data(unload_lag_comp_data(m2), rcv)

\* send_lag_compensation with the packing record written back before the
\* compensation instead of after it.
send_lag_compensation_UnloadBeforeCompensate(m, now, ahead) ==
    LET begin_t == now
        end_t   == begin_t + ahead
        m0 == [m EXCEPT !.lag.compensate_dt = ahead]
        m1 == derivative_first(load_lag_comp_data(pack_from_working_data(m0, now)))
    IN  compensate(unload_lag_comp_data(m1), begin_t, end_t)

\* DynamicalEntityLagCompBase::send_lag_compensation()
send_lag_compensation(m, now, ahead) ==
    LET begin_t == now
        end_t   == begin_t + ahead
        m0 == [m EXCEPT !.lag.compensate_dt = ahead]
        m1 == derivative_first(load_lag_comp_data(pack_from_working_data(m0, now)))
    IN  unload_lag_comp_data(compensate(m1, begin_t, end_t))

\* DynamicalEntityLagCompBase::bypass_send_lag_compensation()
bypass_send_lag_compensation(m, now) == pack_from_working_data(m, now)

\* DynamicalEntityLagCompBase::bypass_receive_lag_compensation()
bypass_receive_lag_compensation(m, rcv) == unpack_into_working_data(m, rcv)

-----------------------------------------------------------------------------
(* Inputs of the PhysicalEntity specification. *)

\* The attributes whose is_received() the code reads.
Attributes == {"state", "name", "type", "status", "parent_frame", "body_frame", "inertia"}

\* An absent (null) string among the inputs.
Absent == "<null>"

StringInputs == StringVals \cup {Absent}

\* The pointer an input string v is held by in pointer variable `arena`.
InputPtr(arena, v) == IF v = Absent THEN NULL ELSE ArenaBlock(arena, 0)

\* The heap holding the working strings ws and the packing strings ps.
InputHeap(ws, ps) ==
    [b \in Blocks |->
        LET v == IF b[1] = "work" THEN ws[b[2]] ELSE ps[b[2]]
        IN  IF b[3] = 0 /\ v # Absent THEN v ELSE Freed]

\* The working (or packing) record holding the strings vs and numeric profile k.
EntityData(side, vs, k, t) ==
    [name            |-> InputPtr(<<side, "name">>, vs["name"]),
     type            |-> InputPtr(<<side, "type">>, vs["type"]),
     status          |-> InputPtr(<<side, "status">>, vs["status"]),
     parent_frame    |-> InputPtr(<<side, "parent_frame">>, vs["parent_frame"]),
     state           |-> StateOf(k, t),
     accel           |-> Vec(k + 50),
     rot_accel       |-> Vec(k + 60),
     cm              |-> Vec(k + 70),
     body_wrt_struct |-> Quat(k + 80)]

\* Working/packing values of the strings that are not the one under study.
Backgrounds == {<<"a", "a">>, <<"a", "b">>}

\* The string inputs: one string takes every pair of working and packing
\* values, the other three share one of the background pairs.
StringCases ==
    {[work |-> [g \in StringFields |-> IF g = f THEN w ELSE bg[1]],
      pack |-> [g \in StringFields |-> IF g = f THEN p ELSE bg[2]]] :
        f \in StringFields, w \in StringInputs, p \in StringInputs, bg \in Backgrounds}

\* The numeric profiles of the working data and of the packing record, as
\* pairs: equal, and different either way.
ProfilePairs == {<<0, 0>>, <<0, 200>>, <<200, 0>>}

InitPE ==
    /\ \E sc \in StringCases, k \in ProfilePairs :
          /\ physical_data = EntityData("work", sc.work, k[1], k[1] \div 200)
          /\ pe_packing_data = EntityData("pack", sc.pack, k[2], k[2] \div 200)
          /\ heap = InputHeap(sc.work, sc.pack)
    /\ received \in {r \in [Attributes -> BOOLEAN] : ~r["inertia"]}
    /\ scenario_time \in 0 .. MaxTime
    /\ lookahead = 0
    /\ de_packing_data = DynamicalData(0, IdentityMat)
    /\ lag = LagConstructed
    /\ integ_dt = 1
    /\ integ_tol = 0
    /\ status = "ok"
    /\ op = "none"
    /\ call_log = <<>>
    /\ before_pack = <<>>
    /\ bound = TRUE
    /\ initialized = TRUE
    /\ sync_pnts = <<>>
    /\ check_time = 0
    /\ ret = <<>>

\* What a call on machine m leaves behind.
Commit(m, name) ==
    /\ physical_data' = m.work
    /\ pe_packing_data' = m.pack
    /\ heap' = m.heap
    /\ de_packing_data' = m.de
    /\ lag' = m.lag
    /\ status' = m.status
    /\ call_log' = m.log
    /\ op' = name
    /\ bound' = m.bound
    /\ initialized' = m.initialized
    /\ UNCHANGED <<sync_pnts, check_time, ret>>

Running == Machine(physical_data, pe_packing_data, heap, de_packing_data, lag)

\* The numeric fields of a working or packing record.
Numeric(d) ==
    [state |-> d.state, accel |-> d.accel, rot_accel |-> d.rot_accel, cm |-> d.cm,
     body_wrt_struct |-> d.body_wrt_struct]

\* The executive calls PhysicalEntity::pack_from_working_data().
Pack ==
    /\ status = "ok"
    /\ Commit(pack_from_working_data(Running, scenario_time), "pack_from_working_data")
    /\ before_pack' = <<Numeric(physical_data)>>
    /\ UNCHANGED <<received, scenario_time, lookahead, integ_dt, integ_tol>>

\* The executive calls PhysicalEntity::unpack_into_working_data().
Unpack ==
    /\ status = "ok"
    /\ Commit(unpack_into_working_data(Running, received), "unpack_into_working_data")
    /\ before_pack' = IF op = "pack_from_working_data" THEN before_pack ELSE <<>>
    /\ UNCHANGED <<received, scenario_time, lookahead, integ_dt, integ_tol>>

NextPE == Pack \/ Unpack

SpecPE == InitPE /\ [][NextPE]_vars

-----------------------------------------------------------------------------
(* The lag-compensation specification: the transport layer delivers        *)
(* attribute data into the packing records and sets the received flags,    *)
(* the executive calls the four entry points of the lag compensation.      *)

\* Symmetric inertia tensors among the inputs: one of determinant 1 with
\* off-diagonal terms, a diagonal one of determinant 24, a singular one.
InertiaInputs ==
    {Mat(<<2, 1, 0>>, <<1, 1, 0>>, <<0, 0, 1>>),
     Mat(<<2, 0, 0>>, <<0, 3, 0>>, <<0, 0, 4>>),
     Mat(<<1, 1, 0>>, <<1, 1, 0>>, <<0, 0, 1>>)}

\* The received flags delivered: state and inertia each on their own, the
\* strings and the body frame together.
FlagCases ==
    {[a \in Attributes |->
        CASE a = "state" -> s [] a = "inertia" -> i [] OTHER -> n] :
            s \in BOOLEAN, i \in BOOLEAN, n \in BOOLEAN}

\* The time tags of delivered states: the earliest scenario time, and one
\* beyond every scenario time by more than max_step.
DataTimes == {0, 2 * MaxTime}

\* The lookaheads: none, and one longer than max_step.
Lookaheads == {0, MaxTime + 1}

InitDE ==
    /\ \E bg \in Backgrounds :
          /\ physical_data = EntityData("work", [f \in StringFields |-> bg[1]], 0, 1)
          /\ pe_packing_data = EntityData("pack", [f \in StringFields |-> bg[2]], 0, 0)
          /\ heap = InputHeap([f \in StringFields |-> bg[1]],
                              [f \in StringFields |-> bg[2]])
    /\ received = [a \in Attributes |-> FALSE]
    /\ scenario_time \in 0 .. MaxTime
    /\ lookahead \in Lookaheads
    /\ de_packing_data \in {DynamicalData(0, J) : J \in InertiaInputs}
    /\ lag = LagConstructed
    /\ integ_dt = 1
    /\ integ_tol = 0
    /\ status = "ok"
    /\ op = "none"
    /\ call_log = <<>>
    /\ before_pack = <<>>
    /\ bound = TRUE
    /\ initialized = TRUE
    /\ sync_pnts = <<>>
    /\ check_time = 0
    /\ ret = <<>>

\* The transport layer ends a cycle's delivery: the flags are set, and a
\* received state and a received inertia are written into the packing records.
Deliver ==
    /\ status = "ok"
    /\ op # "deliver"
    /\ \E r \in FlagCases, t \in DataTimes, J \in InertiaInputs :
          /\ received' = r
          /\ pe_packing_data' =
                IF r["state"]
                THEN [pe_packing_data EXCEPT !.state = StateOf(0, t)]
                ELSE pe_packing_data
          /\ de_packing_data' =
                IF r["inertia"]
                THEN [de_packing_data EXCEPT !.inertia = J]
                ELSE de_packing_data
    /\ op' = "deliver"
    /\ call_log' = <<>>
    /\ before_pack' = <<>>
    /\ UNCHANGED <<physical_data, heap, scenario_time, lookahead, lag, integ_dt,
                   integ_tol, status, bound, initialized, sync_pnts, check_time, ret>>

\* The executive calls receive_lag_compensation(), once per delivery.
ReceiveLagCompensation ==
    /\ status = "ok"
    /\ op = "deliver"
    /\ Commit(receive_lag_compensation(Running, received, scenario_time),
              "receive_lag_compensation")
    /\ before_pack' = <<>>
    /\ UNCHANGED <<received, scenario_time, lookahead, integ_dt, integ_tol>>

\* The executive calls send_lag_compensation().
SendLagCompensation ==
    /\ status = "ok"
    /\ op \notin {"deliver", "send_lag_compensation"}
    /\ Commit(send_lag_compensation(Running, scenario_time, lookahead),
              "send_lag_compensation")
    /\ before_pack' = <<>>
    /\ UNCHANGED <<received, scenario_time, lookahead, integ_dt, integ_tol>>

NextDE ==
    \/ Deliver
    \/ ReceiveLagCompensation
    \/ SendLagCompensation

SpecDE == InitDE /\ [][NextDE]_vars

-----------------------------------------------------------------------------
(* The bypass specification: lag compensation is configured off, and the   *)
(* executive calls the two bypass entry points instead of send and         *)
(* receive.                                                                *)

\* The executive calls bypass_send_lag_compensation().
BypassSend ==
    /\ status = "ok"
    /\ op \notin {"deliver", "bypass_send_lag_compensation"}
    /\ Commit(bypass_send_lag_compensation(Running, scenario_time),
              "bypass_send_lag_compensation")
    /\ before_pack' = <<>>
    /\ UNCHANGED <<received, scenario_time, lookahead, integ_dt, integ_tol>>

\* The executive calls bypass_receive_lag_compensation(), once per delivery.
BypassReceive ==
    /\ status = "ok"
    /\ op = "deliver"
    /\ Commit(bypass_receive_lag_compensation(Running, received),
              "bypass_receive_lag_compensation")
    /\ before_pack' = <<>>
    /\ UNCHANGED <<received, scenario_time, lookahead, integ_dt, integ_tol>>

NextBypass ==
    \/ Deliver
    \/ BypassSend
    \/ BypassReceive

SpecBypass == InitDE /\ [][NextBypass]_vars

-----------------------------------------------------------------------------
(* PhysicalEntityLagCompInteg::initialize and its specification: the       *)
(* engine is configured with a step and a tolerance and initialized once.  *)

\* PhysicalEntityLagCompBase::initialize(), the base-class routine.
PhysicalEntityLagCompBase_initialize(m) ==
    Called(m, <<"PhysicalEntityLagCompBase::initialize">>)

\* PhysicalEntityLagCompInteg::initialize with the base class initialized
\* before the configuration is looked at.
PhysicalEntityLagCompInteg_initialize_BaseFirst(m, dt, tol) ==
    LET m0 == PhysicalEntityLagCompBase_initialize(m)
    IN  IF dt < tol THEN terminate_with_message(m0) ELSE m0

\* PhysicalEntityLagCompInteg::initialize()
PhysicalEntityLagCompInteg_initialize(m, dt, tol) ==
    LET m0 == IF dt < tol THEN terminate_with_message(m) ELSE m
    IN  PhysicalEntityLagCompBase_initialize(m0)

InitInteg ==
    /\ integ_dt \in 1 .. MaxInteg
    /\ integ_tol \in 0 .. MaxInteg
    /\ physical_data = EntityData("work", [f \in StringFields |-> "a"], 0, 0)
    /\ pe_packing_data = EntityData("pack", [f \in StringFields |-> "a"], 0, 0)
    /\ heap = InputHeap([f \in StringFields |-> "a"], [f \in StringFields |-> "a"])
    /\ received = [a \in Attributes |-> FALSE]
    /\ scenario_time = 0
    /\ lookahead = 0
    /\ de_packing_data = DynamicalData(0, IdentityMat)
    /\ lag = LagConstructed
    /\ status = "ok"
    /\ op = "none"
    /\ call_log = <<>>
    /\ before_pack = <<>>
    /\ bound = TRUE
    /\ initialized = TRUE
    /\ sync_pnts = <<>>
    /\ check_time = 0
    /\ ret = <<>>

\* The executive's initialization job calls initialize().
InitializeInteg ==
    /\ status = "ok"
    /\ op = "none"
    /\ Commit(PhysicalEntityLagCompInteg_initialize(Running, integ_dt, integ_tol),
              "initialize")
    /\ before_pack' = <<>>
    /\ UNCHANGED <<received, scenario_time, lookahead, integ_dt, integ_tol>>

NextInteg == InitializeInteg

SpecInteg == InitInteg /\ [][NextInteg]_vars

-----------------------------------------------------------------------------
(* The initialization specification of PhysicalEntity: the constructor     *)
(* leaves physical_data null, the input file may bind it, an               *)
(* initialization job calls one of the two initialize routines, and the    *)
(* scheduled jobs (pack, unpack) run only after that job has returned.     *)

InitEntity ==
    /\ \E sc \in StringCases :
          /\ physical_data = EntityData("work", sc.work, 0, 0)
          /\ pe_packing_data = EntityData("pack", sc.pack, 200, 1)
          /\ heap = InputHeap(sc.work, sc.pack)
    /\ received \in {[a \in Attributes |-> FALSE],
                     [a \in Attributes |-> a # "inertia"]}
    /\ scenario_time = 0
    /\ lookahead = 0
    /\ de_packing_data = DynamicalData(0, IdentityMat)
    /\ lag = LagConstructed
    /\ integ_dt = 1
    /\ integ_tol = 0
    /\ status = "ok"
    /\ op = "none"
    /\ call_log = <<>>
    /\ before_pack = <<>>
    /\ bound = FALSE
    /\ initialized = FALSE
    /\ sync_pnts = <<>>
    /\ check_time = 0
    /\ ret = <<>>

\* The input file assigns physical_data before the initialization jobs run.
SetData ==
    /\ status = "ok"
    /\ op = "none"
    /\ ~bound
    /\ bound' = TRUE
    /\ op' = "set_data"
    /\ UNCHANGED <<physical_data, pe_packing_data, heap, received, scenario_time,
                   lookahead, de_packing_data, lag, integ_dt, integ_tol, status,
                   call_log, before_pack, initialized, sync_pnts, check_time, ret>>

\* The initialization job calls initialize().
Initialize ==
    /\ status = "ok"
    /\ op \in {"none", "set_data"}
    /\ \E ub \in NullInsertOutcomes :
          Commit(PhysicalEntity_initialize(Running, ub), "initialize")
    /\ before_pack' = <<>>
    /\ UNCHANGED <<received, scenario_time, lookahead, integ_dt, integ_tol>>

\* The initialization job calls initialize( physical_data_ptr ).
InitializeWithData ==
    /\ status = "ok"
    /\ op \in {"none", "set_data"}
    /\ \E ptr \in {NULL, TheData}, ub \in NullInsertOutcomes :
          Commit(PhysicalEntity_initialize_ptr(Running, ptr, ub), "initialize")
    /\ before_pack' = <<>>
    /\ UNCHANGED <<received, scenario_time, lookahead, integ_dt, integ_tol>>

\* The initialization job has returned.
InitializationDone == op \notin {"none", "set_data"}

ScheduledPack == InitializationDone /\ Pack

ScheduledUnpack == InitializationDone /\ Unpack

NextEntity ==
    \/ SetData
    \/ Initialize
    \/ InitializeWithData
    \/ ScheduledPack
    \/ ScheduledUnpack

SpecEntity == InitEntity /\ [][NextEntity]_vars

-----------------------------------------------------------------------------
(* TrickHLA::TimedSyncPntList and its specification: points are added, and *)
(* the list is checked and achieved against a time.                        *)

\* Int64Time time( 0.0 ): zero seconds in the base unit.
ZeroTime == 0

\* add_sync_pnt( label, time ): the point is appended, not yet achieved.
add_sync_pnt(list, time) == Append(list, [time |-> time, achieved |-> FALSE])

\* A point is ready for checkTime once checkTime has reached its action time.
IsReady(pnt, checkTime) == pnt.time <= checkTime

\* check_sync_pnts( checkTime ): some point not yet achieved is ready.
check_sync_pnts(list, checkTime) ==
    \E i \in 1 .. Len(list) : ~list[i].achieved /\ IsReady(list[i], checkTime)

\* achieve_all_sync_pnts( rti_ambassador, checkTime ): every point that is
\* ready and not yet achieved is achieved; true if there was one.
achieve_all_sync_pnts(list, checkTime) ==
    [list |-> [i \in 1 .. Len(list) |->
                  IF ~list[i].achieved /\ IsReady(list[i], checkTime)
                  THEN [list[i] EXCEPT !.achieved = TRUE]
                  ELSE list[i]],
     time |-> checkTime,
     ret  |-> check_sync_pnts(list, checkTime)]

\* The overload without a time, with the latest time in place of zero.
achieve_all_sync_pnts_default_LatestTime(list) ==
    achieve_all_sync_pnts(list, MaxSyncTime)

\* achieve_all_sync_pnts( rti_ambassador ): the overload without a time.
achieve_all_sync_pnts_default(list) == achieve_all_sync_pnts(list, ZeroTime)

InitSync ==
    /\ sync_pnts = <<>>
    /\ check_time = 0
    /\ ret = <<>>
    /\ physical_data = EntityData("work", [f \in StringFields |-> "a"], 0, 0)
    /\ pe_packing_data = EntityData("pack", [f \in StringFields |-> "a"], 0, 0)
    /\ heap = InputHeap([f \in StringFields |-> "a"], [f \in StringFields |-> "a"])
    /\ received = [a \in Attributes |-> FALSE]
    /\ scenario_time = 0
    /\ lookahead = 0
    /\ de_packing_data = DynamicalData(0, IdentityMat)
    /\ lag = LagConstructed
    /\ integ_dt = 1
    /\ integ_tol = 0
    /\ status = "ok"
    /\ op = "none"
    /\ call_log = <<>>
    /\ before_pack = <<>>
    /\ bound = TRUE
    /\ initialized = TRUE

\* What the synchronization-point calls leave alone.
EntityUnchanged ==
    UNCHANGED <<physical_data, pe_packing_data, heap, received, scenario_time,
                lookahead, de_packing_data, lag, integ_dt, integ_tol, status,
                call_log, before_pack, bound, initialized>>

AddSyncPnt ==
    /\ Len(sync_pnts) < MaxSyncPnts
    /\ \E t \in 0 .. MaxSyncTime : sync_pnts' = add_sync_pnt(sync_pnts, t)
    /\ op' = "add_sync_pnt"
    /\ UNCHANGED <<check_time, ret>>
    /\ EntityUnchanged

CheckSyncPnts ==
    /\ \E t \in 0 .. MaxSyncTime :
          /\ check_time' = t
          /\ ret' = <<check_sync_pnts(sync_pnts, t)>>
    /\ op' = "check_sync_pnts"
    /\ UNCHANGED sync_pnts
    /\ EntityUnchanged

\* What an achieve call returning r leaves behind.
Achieved(r, name) ==
    /\ sync_pnts' = r.list
    /\ check_time' = r.time
    /\ ret' = <<r.ret>>
    /\ op' = name
    /\ EntityUnchanged

AchieveAllAt ==
    \E t \in 0 .. MaxSyncTime :
        Achieved(achieve_all_sync_pnts(sync_pnts, t), "achieve_all_sync_pnts(time)")

AchieveAll ==
    Achieved(achieve_all_sync_pnts_default(sync_pnts), "achieve_all_sync_pnts()")

NextSync ==
    \/ AddSyncPnt
    \/ CheckSyncPnts
    \/ AchieveAllAt
    \/ AchieveAll

SpecSync == InitSync /\ [][NextSync]_vars

-----------------------------------------------------------------------------
(* Claims about PhysicalEntity::pack_from_working_data and                 *)
(* PhysicalEntity::unpack_into_working_data, checked under SpecPE.         *)

\* The step is a call of unpack_into_working_data.
UnpackStep == op' = "unpack_into_working_data"

\* The attribute-gated groups of unpack_into_working_data.
UnpackGroups == {"state", "body_frame"} \cup StringFields

\* The working field of group g has the same value after the step as before
\* it; a string also the same storage with the same contents.
GroupUntouched(g) ==
    CASE g = "state" -> physical_data'.state = physical_data.state
      [] g = "body_frame" ->
            physical_data'.body_wrt_struct = physical_data.body_wrt_struct
      [] OTHER ->
            /\ physical_data'[g] = physical_data[g]
            /\ physical_data[g] # NULL => heap'[physical_data[g]] = heap[physical_data[g]]

(* C1: ownership gating.  In every call of unpack_into_working_data, a     *)
(* group whose attribute is not received keeps its working value (a string *)
(* also its storage), whatever the packing record and the other flags are. *)
C1_OwnershipGating ==
    [][UnpackStep => \A g \in UnpackGroups : ~received[g] => GroupUntouched(g)]_vars

\* An unpack has run to its end with state and name not received and type
\* received, and the state and the name still differ from the packing record.
C1_Witness ==
    /\ op = "unpack_into_working_data"
    /\ status = "ok"
    /\ ~received["state"] /\ ~received["name"] /\ received["type"]
    /\ physical_data.state # pe_packing_data.state
    /\ physical_data.name # NULL /\ pe_packing_data.name # NULL
    /\ heap[physical_data.name] # heap[pe_packing_data.name]

\* Every attribute unpack_into_working_data reads is received.
AllReceived == \A g \in UnpackGroups : received[g]

\* The state: an unpack with every attribute received has just followed a pack.
RoundTripDone ==
    /\ op = "unpack_into_working_data"
    /\ Len(before_pack) = 1
    /\ AllReceived

(* C2 as stated: after pack followed at once by unpack with every attribute *)
(* received, every numeric working field, the state time tag among them,    *)
(* has the value it had before the pack.                                    *)
C2_RoundTripOriginal ==
    RoundTripDone => Numeric(physical_data) = before_pack[1]

(* C2, amended: after pack followed at once by unpack with every attribute  *)
(* received, pos, vel, quat, ang_vel, accel, rot_accel, cm and              *)
(* body_wrt_struct have the values they had before the pack, and the state  *)
(* time tag is the scenario time of the pack.                               *)
C2_RoundTripAmended ==
    RoundTripDone =>
        /\ [Numeric(physical_data) EXCEPT !.state.time = 0]
              = [before_pack[1] EXCEPT !.state.time = 0]
        /\ physical_data.state.time = scenario_time

\* A round trip has run to its end from working data that differed from the
\* packing record, with a time tag that was not the scenario time.
C2_Witness ==
    /\ RoundTripDone
    /\ status = "ok"
    /\ before_pack[1].state.time # scenario_time
    /\ before_pack[1].state.pos = Vec(210)

\* Unpack reached string f with both pointers non-null and ran to its end.
BothPresent(f) ==
    /\ received[f]
    /\ physical_data[f] # NULL
    /\ pe_packing_data[f] # NULL
    /\ status' = "ok"

(* C3: in unpack_into_working_data, a received identity string is replaced  *)
(* (old storage freed, new storage duplicated from the packing value) when  *)
(* and only when the working value differs from the packing value, so that  *)
(* afterwards the working string equals the non-empty packing string.       *)
C3_ReplacedWhenDifferent ==
    [][UnpackStep =>
        \A f \in StringFields :
            (BothPresent(f) /\ heap[pe_packing_data[f]] # "") =>
                /\ IF StrEqual(heap, physical_data[f], pe_packing_data[f])
                   THEN GroupUntouched(f)
                   ELSE /\ physical_data'[f] # physical_data[f]
                        /\ heap'[physical_data[f]] = Freed
                /\ physical_data'[f] # NULL
                /\ heap'[physical_data'[f]] = heap[pe_packing_data[f]]]_vars

(* C4: in unpack_into_working_data, a received optional string (type,       *)
(* status, parent_frame) whose packing value is null or empty leaves the    *)
(* working field null or empty, and no null pointer is dereferenced.        *)
C4_NullOrEmptyClears ==
    [][UnpackStep =>
        \A f \in {"type", "status", "parent_frame"} :
            (/\ received[f]
             /\ \/ pe_packing_data[f] = NULL
                \/ heap[pe_packing_data[f]] = "") =>
                /\ status' = "ok"
                /\ \/ physical_data'[f] = NULL
                   \/ heap'[physical_data'[f]] = ""]_vars

-----------------------------------------------------------------------------
(* Claims about DynamicalEntityLagCompBase::receive_lag_compensation,      *)
(* checked under SpecDE.                                                   *)

\* The step is a call of receive_lag_compensation.
ReceiveStep == op' = "receive_lag_compensation"

\* How many entries of a call log name the callee nm.
Count(log, nm) == Cardinality({i \in 1 .. Len(log) : log[i][1] = nm})

MatMul(A, B) ==
    [i \in 1 .. 3 |-> [j \in 1 .. 3 |->
        A[i][1] * B[1][j] + A[i][2] * B[2][j] + A[i][3] * B[3][j]]]

\* inv is the inverse of J, or the zero matrix when J is singular.
InverseOrZero(inv, J) ==
    IF Determinant(J) = 0
    THEN inv.num = ZeroMat
    ELSE /\ inv.den # 0
         /\ MatMul(J, inv.num) = [i \in 1 .. 3 |-> [j \in 1 .. 3 |->
                                      IF i = j THEN inv.den ELSE 0]]

(* C5: after every receive_lag_compensation call in which the inertia       *)
(* attribute is received, inertia_inv is the inverse of the inertia the     *)
(* packing record held on entry (the zero matrix if that is singular),      *)
(* whether or not the state attribute was received.                         *)
C5_InverseOfReceivedInertia ==
    [][(ReceiveStep /\ received["inertia"]) =>
          InverseOrZero(lag'.inertia_inv, de_packing_data.inertia)]_vars

(* C6: a receive_lag_compensation call in which the state attribute is not  *)
(* received leaves every field of the packing record (state, mass,          *)
(* mass_rate, force, torque, inertia, inertia_rate) as it was on entry.     *)
C6_AbsentStateKeepsPacking ==
    [][(ReceiveStep /\ ~received["state"]) =>
          /\ pe_packing_data'.state = pe_packing_data.state
          /\ de_packing_data' = de_packing_data]_vars

\* The inertia dm_invert_symm is given in this call is singular: the packed
\* one when the state is received and loaded, the cached one otherwise.
SingularAtInversion ==
    Determinant(IF received["state"] THEN de_packing_data.inertia ELSE lag.inertia) = 0

\* The log holds a, b and c in this order.
InOrder(log, a, b, c) ==
    \E i, j, k \in 1 .. Len(log) :
        /\ i < j /\ j < k
        /\ log[i][1] = a /\ log[j][1] = b /\ log[k][1] = c

(* C7: when the inertia attribute is received and the inversion fails,      *)
(* receive_lag_compensation zeroes inertia_inv, reports the error, does not *)
(* terminate, and still unloads and unpacks in the same call.               *)
C7_SingularInertiaRecoverable ==
    [][(ReceiveStep /\ received["inertia"] /\ SingularAtInversion) =>
          /\ lag'.inertia_inv.num = ZeroMat
          /\ Count(call_log', "send_hs") = 1
          /\ status' = "ok"
          /\ InOrder(call_log', "send_hs", "unload_lag_comp_data",
                     "unpack_into_working_data")]_vars

\* A receive with a singular inertia has reported it, zeroed the inverse and
\* gone on to write the received state into the working data.
C7_Witness ==
    /\ op = "receive_lag_compensation"
    /\ status = "ok"
    /\ received["inertia"] /\ received["state"]
    /\ Determinant(lag.inertia) = 0
    /\ Count(call_log, "send_hs") = 1
    /\ lag.inertia_inv.num = ZeroMat
    /\ physical_data.state = pe_packing_data.state

(* C8: receive_lag_compensation calls load_lag_comp_data and                *)
(* compensate( data time, scenario time ) exactly once when the state       *)
(* attribute is received and not at all when it is not, whatever the flags  *)
(* of the other attributes are.                                             *)
C8_CompensationGatedOnState ==
    [][ReceiveStep =>
          LET n == IF received["state"] THEN 1 ELSE 0
          IN  /\ Count(call_log', "load_lag_comp_data") = n
              /\ Count(call_log', "compensate") = n
              /\ \A i \in 1 .. Len(call_log') :
                    call_log'[i][1] = "compensate" =>
                        call_log'[i] = <<"compensate", pe_packing_data.state.time,
                                         scenario_time>>]_vars

\* A receive has skipped the compensation although inertia and the strings
\* were received: only the state attribute was not.
C8_Witness ==
    /\ op = "receive_lag_compensation"
    /\ ~received["state"] /\ received["inertia"] /\ received["name"]
    /\ Count(call_log, "compensate") = 0
    /\ Count(call_log, "unload_lag_comp_data") = 1

-----------------------------------------------------------------------------
(* Claims about PhysicalEntityLagCompInteg::initialize, checked under      *)
(* SpecInteg.                                                              *)

(* C9: initialize terminates, and never reaches the base-class             *)
(* initialize, whenever integ_tol >= integ_dt, the case integ_tol =        *)
(* integ_dt included.                                                      *)
C9_FatalWhenTolNotBelowStep ==
    (op = "initialize" /\ integ_tol >= integ_dt) =>
        /\ status = "terminated"
        /\ Count(call_log, "PhysicalEntityLagCompBase::initialize") = 0

(* C10: with integ_tol > integ_dt, initialize reports the error through    *)
(* terminate_with_message before any call of the base-class initialize;    *)
(* with integ_tol < integ_dt it reports nothing and calls the base-class   *)
(* initialize exactly once.                                                *)
C10_FatalAboveQuietBelow ==
    op = "initialize" =>
        /\ integ_tol > integ_dt =>
              /\ Count(call_log, "terminate_with_message") = 1
              /\ call_log[1] = <<"terminate_with_message">>
        /\ integ_tol < integ_dt =>
              /\ status = "ok"
              /\ call_log = <<<<"PhysicalEntityLagCompBase::initialize">>>>

\* initialize has terminated on a tolerance above the step.
C10_Witness ==
    /\ op = "initialize"
    /\ integ_tol > integ_dt
    /\ call_log = <<<<"terminate_with_message">>>>
    /\ status = "terminated"

-----------------------------------------------------------------------------
(* Claims about PhysicalEntity::initialize, checked under SpecEntity.      *)

\* The step is a call of one of the two initialize routines.
InitializeStep == op' = "initialize"

\* The call of this step had no working data to bind: initialize() with
\* physical_data null, or initialize( ptr ) with a null ptr.
MissingBinding ==
    \/ call_log'[1] = <<"PhysicalEntity::initialize">> /\ ~bound
    \/ call_log'[1] = <<"PhysicalEntity::initialize(ptr)", NULL>>

(* C11: initialize() with physical_data null and initialize( ptr ) with a  *)
(* null ptr both end in the fatal termination; the entity is never marked  *)
(* initialized, and pack and unpack never run, while physical_data is null.*)
C11_MissingBindingFatal ==
    [][/\ (InitializeStep /\ MissingBinding) =>
              /\ status' = "terminated"
              /\ Count(call_log', "terminate_with_message") = 1
       /\ initialized' => bound'
       /\ op' \in {"pack_from_working_data", "unpack_into_working_data"} => bound]_vars

(* C12: initialize terminates when the working data is bound and its name  *)
(* is null, so that the absence is not first detected by a later pack.     *)
C12_NullNameFatalAtInitialize ==
    [][(InitializeStep /\ ~MissingBinding /\ physical_data.name = NULL) =>
          status' = "terminated"]_vars

-----------------------------------------------------------------------------
(* Claims about the order of the steps in send_lag_compensation and        *)
(* receive_lag_compensation, checked under SpecDE.                         *)

\* The step is a call of send_lag_compensation.
SendStep == op' = "send_lag_compensation"

\* The steps of an exchange cycle.
CycleSteps ==
    {"pack_from_working_data", "load_lag_comp_data", "compensate",
     "unload_lag_comp_data", "unpack_into_working_data"}

IsCycleStep(e) == e[1] \in CycleSteps

\* The steps of an exchange cycle a call log holds, in the order of the log.
StepsOf(log) ==
    LET kept == SelectSeq(log, IsCycleStep)
    IN  [i \in 1 .. Len(kept) |-> kept[i][1]]

\* The compensate entries of a call log.
IsCompensate(e) == e[1] = "compensate"

(* C13: every send_lag_compensation call runs pack_from_working_data,      *)
(* load_lag_comp_data, compensate( scenario time, scenario time +          *)
(* lookahead ) and unload_lag_comp_data once each in this order and no     *)
(* unpack; every receive_lag_compensation call runs load and compensate    *)
(* (when the state is received), then unload, then one unpack as its last  *)
(* step, and no pack.                                                      *)
C13_StepOrdering ==
    [][/\ SendStep =>
              /\ StepsOf(call_log') =
                    <<"pack_from_working_data", "load_lag_comp_data", "compensate",
                      "unload_lag_comp_data">>
              /\ SelectSeq(call_log', IsCompensate) =
                    <<<<"compensate", scenario_time, scenario_time + lookahead>>>>
       /\ ReceiveStep =>
              /\ StepsOf(call_log') =
                    (IF received["state"]
                     THEN <<"load_lag_comp_data", "compensate">>
                     ELSE <<>>)
                    \o <<"unload_lag_comp_data", "unpack_into_working_data">>
              /\ call_log'[Len(call_log')] = <<"unpack_into_working_data">>]_vars

\* A send over a lookahead that is not zero has run to its end and has
\* written the compensated state, tagged with the end of the window, back
\* into the packing record.
C13_Witness ==
    /\ op = "send_lag_compensation"
    /\ status = "ok"
    /\ lookahead > 0
    /\ pe_packing_data.state.time = scenario_time + lookahead
    /\ Count(call_log, "unload_lag_comp_data") = 1

-----------------------------------------------------------------------------
(* Claims about the bypass entry points, checked under SpecBypass.         *)

\* The packing record and the working data a call leaves behind.
SamePacking(m) == pe_packing_data' = m.pack /\ de_packing_data' = m.de

SameWorking(m) == physical_data' = m.work /\ heap' = m.heap

(* C14: bypass_send_lag_compensation leaves the packing record as          *)
(* send_lag_compensation with lookahead 0 would from the same state, and   *)
(* bypass_receive_lag_compensation leaves the working data and the packing *)
(* record as receive_lag_compensation would from the same state when the   *)
(* data time equals the scenario time, whatever the received flags and the *)
(* lag-compensation working copy are.                                      *)
C14_BypassEquivalence ==
    [][/\ (op' = "bypass_send_lag_compensation" /\ lookahead = 0) =>
              SamePacking(send_lag_compensation(Running, scenario_time, 0))
       /\ (/\ op' = "bypass_receive_lag_compensation"
           /\ pe_packing_data.state.time = scenario_time) =>
              LET m == receive_lag_compensation(Running, received, scenario_time)
              IN  SamePacking(m) /\ SameWorking(m)]_vars

-----------------------------------------------------------------------------
(* Claims about the compensation window, checked under SpecDE.             *)

\* The call of this step reported its window once, did not terminate, and
\* ended with the step `last`.
ReportedAndCompleted(last) ==
    /\ Count(call_log', "window_exceeded") = 1
    /\ Count(call_log', "terminate_with_message") = 0
    /\ status' = "ok"
    /\ call_log'[Len(call_log')] = <<last>>

-----------------------------------------------------------------------------
(* Claims about the storage of the identity strings, checked under SpecPE. *)

\* The identity-string pointers of the working data and the packing record.
WorkingPointers == {physical_data[f] : f \in StringFields} \ {NULL}

PackingPointers == {pe_packing_data[f] : f \in StringFields} \ {NULL}

(* C16: after any sequence of pack_from_working_data and                   *)
(* unpack_into_working_data calls, no identity-string pointer of the       *)
(* working data or the packing record refers to freed storage, no call has *)
(* freed storage twice, and no packing string shares its storage with a    *)
(* working string.                                                         *)
C16_StringStorageSafe ==
    /\ \A p \in WorkingPointers \cup PackingPointers : heap[p] # Freed
    /\ Count(call_log, "delete_var of freed storage") = 0
    /\ WorkingPointers \cap PackingPointers = {}

\* A pack has replaced the packing name and type and an unpack after it has
\* freed and duplicated the working name again: both first blocks are freed
\* and every pointer refers to live storage holding the working value.
C16_Witness ==
    /\ op = "unpack_into_working_data"
    /\ status = "ok"
    /\ heap[ArenaBlock(<<"pack", "name">>, 0)] = Freed
    /\ heap[ArenaBlock(<<"work", "name">>, 0)] = Freed
    /\ physical_data.name = ArenaBlock(<<"work", "name">>, 1)
    /\ pe_packing_data.name = ArenaBlock(<<"pack", "name">>, 1)
    /\ heap[physical_data.name] = heap[pe_packing_data.name]

-----------------------------------------------------------------------------
(* Claims about TrickHLA::TimedSyncPntList, checked under SpecSync.        *)

\* The points this step has achieved.
NewlyAchieved ==
    {i \in 1 .. Len(sync_pnts) : sync_pnts'[i].achieved /\ ~sync_pnts[i].achieved}

\* The points not yet achieved whose action time the check time has reached.
Due(t) == {i \in 1 .. Len(sync_pnts) : ~sync_pnts[i].achieved /\ t >= sync_pnts[i].time}

-----------------------------------------------------------------------------
(* Further claims about pack_from_working_data and                         *)
(* unpack_into_working_data, checked under SpecPE.                         *)

\* The step is a call of pack_from_working_data.
PackStep == op' = "pack_from_working_data"

\* After the step the packing string f has the value the working string had.
PackedFromWorking(f) ==
    /\ pe_packing_data'[f] # NULL
    /\ heap'[pe_packing_data'[f]] = heap[physical_data[f]]

(* C18: a pack_from_working_data call with non-null working name and       *)
(* parent_frame and a packing name or parent_frame that is still null      *)
(* dereferences no null pointer, runs to its end, and leaves the packing   *)
(* name and parent_frame equal to the working ones.                        *)
C18_PackGuardsNullPacking ==
    [][(/\ PackStep
        /\ physical_data.name # NULL
        /\ physical_data.parent_frame # NULL
        /\ \/ pe_packing_data.name = NULL
           \/ pe_packing_data.parent_frame = NULL) =>
          /\ status' = "ok"
          /\ PackedFromWorking("name")
          /\ PackedFromWorking("parent_frame")]_vars

(* C20: after an unpack_into_working_data call with every attribute        *)
(* received, every numeric field pack copies (pos, vel, quat, ang_vel,     *)
(* time, accel, rot_accel, cm, body_wrt_struct) has in the working data    *)
(* the value the packing record holds.                                     *)
C20_UnpackCopiesAllNumeric ==
    (op = "unpack_into_working_data" /\ status = "ok" /\ AllReceived) =>
        Numeric(physical_data) = Numeric(pe_packing_data)

-----------------------------------------------------------------------------
(* A further claim about the inertia inverse, checked under SpecDE.        *)

(* C19: whenever send_lag_compensation or receive_lag_compensation invokes *)
(* compensate, inertia_inv is the inverse of the inertia the               *)
(* lag-compensation working copy holds at that moment (the zero matrix     *)
(* when that inertia is singular).                                         *)
C19_InverseConsistentAtCompensate ==
    [][(SendStep \/ ReceiveStep) =>
          \A i \in 1 .. Len(call_log') :
              call_log'[i][1] = "compensate_reads" =>
                  InverseOrZero(call_log'[i][3], call_log'[i][2])]_vars

====
